---- MODULE Spec2Model ----
(***************************************************************************)
(* A model of the position / order lifecycle of the trading bot and of its *)
(* opportunity pipeline:                                                   *)
(*   - RiskManager (src/strategies/risk_manager.py): the exit-evaluation   *)
(*     loop over RiskManager.positions and add_position, as called by      *)
(*     MEVBot.handle_new_token_opportunity (src/mev_bot.py);               *)
(*   - ManualTrader (src/trading/manual_trader.py): market_buy, limit_buy, *)
(*     the fill-poll task, market_sell, update_tp_sl, cancel_limit_order;  *)
(*   - MEVBot.monitor_mempool (src/mev_bot.py): the analyzer, the strategy *)
(*     scorer, the risk gate and the executor of                           *)
(*     src/strategies/advanced_strategies.py, one after the other.         *)
(*                                                                         *)
(* Prices, amounts and times are integers.  The thresholds are percentages *)
(* and a comparison (a - b) / a >= q of the code is made on the cross      *)
(* product (a - b) * 100 >= q% * a, which is the same comparison for       *)
(* a > 0; a = 0 is the code's ZeroDivisionError.  For the small integer    *)
(* prices of the model the floating-point quotient is never within one     *)
(* rounding step of a threshold without being equal to it, so the integer  *)
(* comparison is the code's.                                               *)
(*                                                                         *)
(* A Python dict is a sequence of entries in insertion order: assignment   *)
(* replaces the entry of the key in place or appends, del removes it.      *)
(*                                                                         *)
(* The price feed, the buy and sell execution and the clock are outside    *)
(* the program: what they return is an input of the action that reads it.  *)
(* A coroutine runs atomically between two suspension points (awaits on    *)
(* the price feed, on an execution, or a sleep).                           *)
(***************************************************************************)
EXTENDS Integers, Sequences, FiniteSets, Bags, TLC

VARIABLES
    env,              \* the program that runs and the inputs its surroundings offer
    now,              \* time.time()
    positions,        \* RiskManager.positions
    rm_pc,            \* where RiskManager.start_monitoring is suspended
    rm_time,          \* current_time of the running _check_positions
    rm_todo,          \* the part of list(self.positions.items()) still to visit
    active_positions, \* ManualTrader.active_positions: token_address -> Position object
    pending_orders,   \* ManualTrader.pending_orders
    heap,             \* the Position objects of ManualTrader, by identity
    tasks,            \* the running _monitor_limit_order tasks
    sells,            \* the market_sell calls suspended at an await
    mm_pc,            \* where MEVBot.monitor_mempool is suspended
    analysis,         \* its local `analysis`: the Opportunity of the observed transaction
    strategy,         \* its local `strategy`
    stages,           \* what each stage answered for the observed transaction
    daily_stats,      \* daily_stats of the RiskManager of advanced_strategies.py
    tx_parts,         \* tx_parts of the running execute_stealth_transaction
    parts_done,       \* the parts it has executed, each with what it answered
    volume_history,   \* EnhancedMempoolMonitor.volume_history: token -> samples
    token_info,       \* token_info of the running analyze_transaction_intent
    wl_tokens,        \* TokenWhitelist.tokens: symbol -> TokenConfig
    wl_dexes,         \* TokenWhitelist.dexes: name -> DexInfo
    wl_pairs,         \* TokenWhitelist.pairs: "base/quote" -> PairConfig
    config_file,      \* the JSON document at TokenWhitelist.config_path
    event             \* what the last step did (log line, execution, return)

rm_vars == <<now, positions, rm_pc, rm_time, rm_todo>>
mt_vars == <<active_positions, pending_orders, heap, tasks, sells>>
mm_vars == <<mm_pc, analysis, strategy, stages, daily_stats, tx_parts, parts_done,
             volume_history, token_info>>
wl_vars == <<wl_tokens, wl_dexes, wl_pairs, config_file>>
vars == <<env, now, positions, rm_pc, rm_time, rm_todo,
          active_positions, pending_orders, heap, tasks, sells,
          mm_pc, analysis, strategy, stages, daily_stats, tx_parts, parts_done,
          volume_history, token_info, wl_tokens, wl_dexes, wl_pairs, config_file, event>>

(***************************************************************************)
(* Inputs                                                                  *)
(***************************************************************************)
\* The value of an Optional that is None.
None == -1

\* No file at config_path.
NoFile == [missing |-> TRUE]

\* What _extract_token_info returns: the dict of the addresses, the amounts and
\* the volume in USD of a transaction, or None.
TokenInfo(addresses, amounts, volume_usd) ==
    [addresses |-> addresses, amounts |-> amounts, volume_usd |-> volume_usd]
NoTokenInfo == [addresses |-> "None"]

\* The configuration file of a whitelist with the one token T1, as the JSON
\* document that is on disk.
ListedConfig ==
    LET S(x) == [json |-> "string", chars |-> x]
        N(x) == [json |-> "number", digits |-> x]
        true == [json |-> "true"]
    IN  [tokens |-> <<[key |-> S("A"),
                       value |-> [address |-> S("T1"), symbol |-> S("A"), name |-> S("A"),
                                  decimals |-> N(9), min_liquidity |-> N(1000),
                                  enabled |-> true]]>>,
         dexes |-> <<[key |-> S("raydium"),
                      value |-> [name |-> S("Raydium"), enabled |-> true]]>>,
         pairs |-> <<>>]

\* The instants at which the clock is read: both sides of the 60 s window of
\* the quick-loss check and of max_holding_time.
Times == {0, 60, 61, 3600}

\* RiskManager is built by MEVBot (src/mev_bot.py) and ManualTrader by the
\* command line (src/manual_trade.py), never both in one process: a behaviour
\* is the behaviour of one program.  The surroundings of a behaviour offer
\*   tokens          the token addresses in use,
\*   prices          the prices the feed can report (0 is what the placeholder
\*                   feeds return; 85, 95 are a drop of exactly 15% and 5% from
\*                   100, and 117 is a drop of exactly 10% from 130),
\*   initial_prices  initial_price of a new token,
\*   liquidities     initial_liquidity of a new token,
\*   amounts         the amount of a buy,
\*   sell_amounts    the amount of a sell (None: the whole position),
\*   targets         the price of a limit order,
\*   take_profits, stop_losses   the optional exit levels of an order.
\* A behaviour has one or two tokens and a part of the inputs: new tokens at a
\* price, or two new tokens at price 0, whose evaluation raises; limit orders,
\* sells of a part (4 of 10, until 4 is all that is left), sells of the whole,
\* sells of nothing or of too much, exit levels; with two tokens, either orders
\* that no price fills or market buys.
\*
\* MEVBot.monitor_mempool is the third program.  The methods it reaches whose
\* body is a placeholder ("Add your ... logic here") are the places where the
\* logic of a deployment goes: what they return is an input, the value of the
\* placeholder among the inputs.  Its surroundings offer
\*   strategies      the names registered in AdaptiveStrategyManager.strategies,
\*                   in insertion order,
\*   sub_scores      the values of the three parts of a strategy's score,
\*   outcomes        what a predicate of the risk gate does: it returns True
\*                   or False, or it raises,
\*   delays          what _calculate_delay returns, in tenths of a second (the
\*                   placeholder returns 0.0),
\*   splits          the number of parts that _split_transaction returns (the
\*                   placeholder returns the transaction as its one part),
\*   part_outcomes   what _execute_tx_part does: it returns True or False, or
\*                   it raises,
\*   observations    what _extract_token_info returns for a transaction (the
\*                   placeholder returns no address, no amount and volume 0.0),
\*   profits         what _estimate_profit_potential returns, in percent (the
\*                   placeholder returns 0.0),
\*   times           the instants the clock reaches while the pipeline runs.
\* A pipeline that is to reach the stages after the analyzer observes three
\* transactions of 600 tokens of T1, worth 5000 USD, at one instant: the third
\* finds a volume of 1800 that rises.
\*
\* TokenWhitelist, used on its own, is the fourth program.  Its surroundings
\* offer
\*   config          the JSON document found at config_path when the
\*                   TokenWhitelist is built ("missing": no file),
\*   symbols         the symbols of add_token and add_pair (tokens are the
\*                   addresses),
\*   decimals        the decimals of add_token,
\*   dex_configs     the dex_configs of add_pair.
Env(program, tokens, prices, initial, liquidity, amounts, sell_amounts, targets, tp, sl) ==
    [program |-> program, tokens |-> tokens, prices |-> prices,
     initial_prices |-> initial, liquidities |-> liquidity,
     amounts |-> amounts, sell_amounts |-> sell_amounts, targets |-> targets,
     take_profits |-> tp, stop_losses |-> sl,
     strategies |-> <<>>, sub_scores |-> {}, outcomes |-> {},
     delays |-> {}, splits |-> {}, part_outcomes |-> {},
     observations |-> {}, profits |-> {}, times |-> {},
     config |-> NoFile, symbols |-> {}, decimals |-> {}, dex_configs |-> {}]

PipelineEnv(tokens, strategies, sub_scores, outcomes) ==
    [Env("monitor_mempool", tokens, {}, {}, {}, {}, {}, {}, {}, {})
        EXCEPT !.strategies = strategies, !.sub_scores = sub_scores, !.outcomes = outcomes,
               !.delays = {0}, !.splits = {1}, !.part_outcomes = {"True", "False"},
               !.observations = {TokenInfo(<<"T1">>, <<600>>, 5000)}, !.profits = {5},
               !.config = ListedConfig]

\* A pipeline with no strategy registered: the analyzer alone.
AnalyzerEnv(tokens, observations, profits, times) ==
    [PipelineEnv(tokens, <<>>, {}, {"True"})
        EXCEPT !.observations = observations, !.profits = profits, !.times = times]

\* A pipeline in which every stage before the executor lets the transaction pass.
StealthEnv(tokens, delays, splits, part_outcomes) ==
    [PipelineEnv(tokens, <<"sandwich">>, {1}, {"True"})
        EXCEPT !.delays = delays, !.splits = splits, !.part_outcomes = part_outcomes]

WhitelistEnv(tokens, symbols, decimals, dex_configs, config) ==
    [Env("token_whitelist", tokens, {}, {}, {}, {}, {}, {}, {}, {})
        EXCEPT !.config = config, !.symbols = symbols, !.decimals = decimals,
               !.dex_configs = dex_configs]

\* The number of _monitor_limit_order tasks and of suspended market_sell calls
\* that run at a time, and the number of samples that volume_history holds.
MaxTasks == 2
MaxSells == 2
MaxSamples == 3

NoEvent == [kind |-> "none"]

(***************************************************************************)
(* Python dict, keyed by token_address                                     *)
(***************************************************************************)
DictHas(d, k) == \E i \in 1..Len(d) : d[i].token_address = k

DictGet(d, k) == d[CHOOSE i \in 1..Len(d) : d[i].token_address = k]

\* DictSet as a list would do it: always one more entry.
DictSet_Appends(d, k, v) == Append(d, v)

DictSet(d, k, v) ==
    IF DictHas(d, k)
    THEN [i \in 1..Len(d) |-> IF d[i].token_address = k THEN v ELSE d[i]]
    ELSE Append(d, v)

DictDel(d, k) == SelectSeq(d, LAMBDA e : e.token_address # k)

DictKeys(d) == {d[i].token_address : i \in 1..Len(d)}

(***************************************************************************)
(* RiskManager                                                             *)
(***************************************************************************)
stop_loss_threshold == 15
trailing_stop_loss == 10
max_holding_time == 3600
quick_loss_threshold == 5
QuickLossWindow == 60

TokenPosition(t, entry_price, quantity, time) ==
    [token_address |-> t, entry_price |-> entry_price, current_price |-> entry_price,
     quantity |-> quantity, highest_price |-> entry_price, entry_time |-> time]

\* price_drop >= q, for entry_price > 0
PriceDropAtLeast(p, q) == (p.entry_price - p.current_price) * 100 >= q * p.entry_price

\* DropFromHighAtLeast with > for >=.
DropFromHighAtLeast_Strict(p, q) == (p.highest_price - p.current_price) * 100 > q * p.highest_price

\* drop_from_high >= q, for highest_price > 0
DropFromHighAtLeast(p, q) == (p.highest_price - p.current_price) * 100 >= q * p.highest_price

TimeHeld(p, current_time) == current_time - p.entry_time

\* The two divisions of _check_stop_loss_conditions raise ZeroDivisionError.
RaisesZeroDivision(p) == p.entry_price = 0 \/ p.highest_price = 0

\* CheckStopLossConditions with the stop-loss test moved before the quick-loss test.
CheckStopLossConditions_StopFirst(p, current_time) ==
    IF RaisesZeroDivision(p) THEN <<"error">>
    ELSE IF PriceDropAtLeast(p, stop_loss_threshold)
         THEN <<"Stop Loss Triggered">>
    ELSE IF TimeHeld(p, current_time) <= QuickLossWindow /\ PriceDropAtLeast(p, quick_loss_threshold)
         THEN <<"Quick Loss Triggered">>
    ELSE IF DropFromHighAtLeast(p, trailing_stop_loss)
         THEN <<"Trailing Stop Loss Triggered">>
    ELSE IF TimeHeld(p, current_time) >= max_holding_time
         THEN <<"Max Holding Time Reached">>
    ELSE <<>>

\* CheckStopLossConditions with time_held < 60 for time_held <= 60.
CheckStopLossConditions_StrictWindow(p, current_time) ==
    IF RaisesZeroDivision(p) THEN <<"error">>
    ELSE IF TimeHeld(p, current_time) < QuickLossWindow /\ PriceDropAtLeast(p, quick_loss_threshold)
         THEN <<"Quick Loss Triggered">>
    ELSE IF PriceDropAtLeast(p, stop_loss_threshold)
         THEN <<"Stop Loss Triggered">>
    ELSE IF DropFromHighAtLeast(p, trailing_stop_loss)
         THEN <<"Trailing Stop Loss Triggered">>
    ELSE IF TimeHeld(p, current_time) >= max_holding_time
         THEN <<"Max Holding Time Reached">>
    ELSE <<>>

\* CheckStopLossConditions without the regular stop-loss test.
CheckStopLossConditions_NoStopLoss(p, current_time) ==
    IF RaisesZeroDivision(p) THEN <<"error">>
    ELSE IF TimeHeld(p, current_time) <= QuickLossWindow /\ PriceDropAtLeast(p, quick_loss_threshold)
         THEN <<"Quick Loss Triggered">>
    ELSE IF DropFromHighAtLeast(p, trailing_stop_loss)
         THEN <<"Trailing Stop Loss Triggered">>
    ELSE IF TimeHeld(p, current_time) >= max_holding_time
         THEN <<"Max Holding Time Reached">>
    ELSE <<>>

\* The reasons of the emergency sells that one call of
\* _check_stop_loss_conditions issues, in order; "error" when it raises.
CheckStopLossConditions(p, current_time) ==
    IF RaisesZeroDivision(p) THEN <<"error">>
    ELSE IF TimeHeld(p, current_time) <= QuickLossWindow /\ PriceDropAtLeast(p, quick_loss_threshold)
         THEN <<"Quick Loss Triggered">>
    ELSE IF PriceDropAtLeast(p, stop_loss_threshold)
         THEN <<"Stop Loss Triggered">>
    ELSE IF DropFromHighAtLeast(p, trailing_stop_loss)
         THEN <<"Trailing Stop Loss Triggered">>
    ELSE IF TimeHeld(p, current_time) >= max_holding_time
         THEN <<"Max Holding Time Reached">>
    ELSE <<>>

IsSell(reasons) == reasons # <<>> /\ reasons # <<"error">>

\* ExecuteEmergencySell that keeps the position when the sell failed.
ExecuteEmergencySell_OnlyOnSuccess(d, t, sell_ok) == IF sell_ok THEN DictDel(d, t) ELSE d

\* _execute_emergency_sell: the sell itself is left to the integrator and its
\* outcome sell_ok is not consulted; the entry of the token is deleted.  A
\* KeyError of the del is caught and leaves the dict as it is.
ExecuteEmergencySell(d, t, sell_ok) == DictDel(d, t)

\* The position after lines 52-56 of _check_positions.
UpdatePrice(p, new_price) ==
    [p EXCEPT !.current_price = new_price,
              !.highest_price = IF new_price > p.highest_price THEN new_price ELSE p.highest_price]

\* _calculate_position_size, in thousandths: min(INITIAL_BUY_AMOUNT, liquidity * 0.01)
InitialBuyAmount == 100
CalculatePositionSize(liquidity) ==
    IF InitialBuyAmount <= liquidity * 10 THEN InitialBuyAmount ELSE liquidity * 10

RmInit ==
    /\ now = 0
    /\ positions = <<>>
    /\ rm_pc = "sleep"
    /\ rm_time = 0
    /\ rm_todo = <<>>

\* time passes
Tick ==
    /\ env.program = "mev_bot"
    /\ \E t \in Times : t > now /\ now' = t
    /\ event' = NoEvent
    /\ UNCHANGED <<env, positions, rm_pc, rm_time, rm_todo, mt_vars, mm_vars, wl_vars>>

\* add_position: the dict entry of the token becomes a new object, so an object
\* of that token that the running _check_positions holds is no longer the tracked one.
AddPosition(t, entry_price, quantity) ==
    /\ positions' = DictSet(positions, t, TokenPosition(t, entry_price, quantity, now))
    /\ rm_todo' = [i \in 1..Len(rm_todo) |->
                    IF rm_todo[i].position.token_address = t
                    THEN [rm_todo[i] EXCEPT !.live = FALSE] ELSE rm_todo[i]]

\* MEVBot.handle_new_token_opportunity, at the point where it touches the
\* risk manager: nothing before it reads or writes shared state.
HandleNewTokenOpportunity ==
    \E t \in env.tokens, initial_price \in env.initial_prices, liquidity \in env.liquidities,
       valid \in BOOLEAN, tx_sig \in BOOLEAN :
        /\ IF valid /\ tx_sig
           THEN AddPosition(t, initial_price, CalculatePositionSize(liquidity))
           ELSE UNCHANGED <<positions, rm_todo>>
        /\ event' = [kind |-> "new_token", token |-> t, added |-> (valid /\ tx_sig),
                     had |-> DictHas(positions, t)]
        /\ UNCHANGED <<env, now, rm_pc, rm_time, mt_vars, mm_vars, wl_vars>>

\* _check_positions up to its first await: current_time and the list of items.
\* current_time is a local of the call: it is 0 while no call runs.
StartCheck ==
    /\ env.program = "mev_bot"
    /\ rm_pc = "sleep"
    /\ rm_time' = IF positions = <<>> THEN 0 ELSE now
    /\ rm_todo' = [i \in 1..Len(positions) |-> [position |-> positions[i], live |-> TRUE]]
    /\ rm_pc' = IF positions = <<>> THEN "sleep" ELSE "fetch"
    /\ event' = NoEvent
    /\ UNCHANGED <<env, now, positions, mt_vars, mm_vars, wl_vars>>

\* RestAfter with the try around the for loop instead of inside it.
RestAfter_Abandons(todo, failed) == IF failed THEN <<>> ELSE Tail(todo)

\* The items still to visit after one iteration of the for loop: `continue`
\* (line 50) and the except of line 61 both go on with the next item.
RestAfter(todo, failed) == Tail(todo)

\* PriceKnown without the test of line 49.
PriceKnown_Always(new_price) == TRUE

\* The test of line 49: only None is no price.
PriceKnown(new_price) == new_price # None

\* One iteration of the for loop of _check_positions, from the return of
\* _get_current_price to the next await.
CheckPosition ==
    /\ rm_pc = "fetch"
    /\ \E new_price \in env.prices \cup {None}, sell_ok \in BOOLEAN :
        LET item == Head(rm_todo)
            t == item.position.token_address
            p == UpdatePrice(item.position, new_price)
            reasons == CheckStopLossConditions(p, rm_time)
            updated == IF item.live THEN DictSet(positions, t, p) ELSE positions
            rest == RestAfter(rm_todo, new_price = None \/ reasons = <<"error">>)
        IN  /\ IF ~PriceKnown(new_price)
               THEN /\ event' = [kind |-> "no_price", token |-> t, price |-> new_price]
                    /\ UNCHANGED positions
               ELSE /\ positions' = IF IsSell(reasons)
                                    THEN ExecuteEmergencySell(updated, t, sell_ok)
                                    ELSE updated
                    /\ event' = [kind |-> "eval", token |-> t, position |-> p,
                                 price |-> new_price,
                                 time_held |-> TimeHeld(p, rm_time), reasons |-> reasons,
                                 sell_ok |-> sell_ok, live |-> item.live]
            /\ rm_todo' = rest
            /\ rm_pc' = IF rest = <<>> THEN "sleep" ELSE "fetch"
            /\ rm_time' = IF rest = <<>> THEN 0 ELSE rm_time
    /\ UNCHANGED <<env, now, mt_vars, mm_vars, wl_vars>>

RmNext == Tick \/ HandleNewTokenOpportunity \/ StartCheck \/ CheckPosition

(***************************************************************************)
(* ManualTrader                                                            *)
(***************************************************************************)
\* `not x` of an Optional[float]: None and 0.0 are both false.
Falsy(x) == x = None \/ x = 0

Position(t, entry_price, amount, take_profit, stop_loss, order_type) ==
    [token_address |-> t, entry_price |-> entry_price, amount |-> amount,
     take_profit |-> take_profit, stop_loss |-> stop_loss, order_type |-> order_type]

TradeConfig(t, amount, price, take_profit, stop_loss) ==
    [token_address |-> t, amount |-> amount, price |-> price,
     take_profit |-> take_profit, stop_loss |-> stop_loss]

\* The locals order and current_price of a task that has not assigned them.
NoOrder == TradeConfig("", None, None, None, None)

\* A dict entry of active_positions refers to its Position object.
Ref(t, id) == [token_address |-> t, position |-> id]

\* The identity of a new object: one that no live object has.
FreshId(h) == CHOOSE k \in 0..Cardinality(DOMAIN h) : k \notin DOMAIN h

Put(h, id, obj) == [k \in DOMAIN h \cup {id} |-> IF k = id THEN obj ELSE h[k]]

\* Objects that neither the dict nor a suspended call refers to are gone.
Referenced(d, s) == {d[i].position : i \in 1..Len(d)} \cup {x.position : x \in BagToSet(s)}
Collect(h, d, s) == [k \in DOMAIN h \cap Referenced(d, s) |-> h[k]]

\* The Position object that active_positions holds for a token.
PositionOf(t) == heap[DictGet(active_positions, t).position]

\* A _monitor_limit_order task: its argument, where it is suspended and its
\* locals.  cancelled records that an order of the token was cancelled while
\* the task ran; the program has no such flag and the model never reads it.
Task(t, pc, current_price, order) ==
    [token |-> t, pc |-> pc, current_price |-> current_price, order |-> order,
     cancelled |-> FALSE]

\* The tasks of token t after an order of t was cancelled.
MarkCancelled(tk, t) ==
    LET Mark(task) == IF task.token = t THEN [task EXCEPT !.cancelled = TRUE] ELSE task
    IN  BagOfAll(Mark, tk)

\* A suspended market_sell: its arguments and the locals it still reads.
Sell(t, amount, sell_amount, id, pc) ==
    [token |-> t, amount |-> amount, sell_amount |-> sell_amount, position |-> id, pc |-> pc]

One(x) == SetToBag({x})

MtInit ==
    /\ active_positions = <<>>
    /\ pending_orders = <<>>
    /\ heap = [k \in {} |-> None]
    /\ tasks = EmptyBag
    /\ sells = EmptyBag

\* The state of ManualTrader after a step.
MtStep(ap, po, h, tk, sl, ev) ==
    /\ active_positions' = ap
    /\ pending_orders' = po
    /\ heap' = Collect(h, ap, sl)
    /\ tasks' = tk
    /\ sells' = sl
    /\ event' = ev
    /\ UNCHANGED <<env, rm_vars, mm_vars, wl_vars>>

\* MarketBuyStores without the test of line 83.
MarketBuyStores_Unchecked(current_price, success) == ~Falsy(current_price)

\* market_buy stores a Position when it had a price (line 59) and the
\* execution succeeded (line 83).
MarketBuyStores(current_price, success) == ~Falsy(current_price) /\ success

\* market_buy.  Before line 84 it reads and writes nothing of the trader, so
\* the call is one step, taken when it returns; current_price and success are
\* what the feed and the execution answered (an exception is a failure).
MarketBuy ==
    /\ env.program = "manual_trade"
    /\ \E t \in env.tokens, amount \in env.amounts, take_profit \in env.take_profits,
          stop_loss \in env.stop_losses, current_price \in env.prices \cup {None},
          success \in BOOLEAN :
        LET executed == ~Falsy(current_price)
            ok == MarketBuyStores(current_price, success)
            id == FreshId(heap)
        IN  MtStep(IF ok THEN DictSet(active_positions, t, Ref(t, id)) ELSE active_positions,
                   pending_orders,
                   IF ok THEN Put(heap, id, Position(t, current_price, amount, take_profit,
                                                     stop_loss, "market"))
                         ELSE heap,
                   tasks, sells,
                   [kind |-> "market_buy", token |-> t, amount |-> amount,
                    price |-> current_price, executed |-> executed,
                    success |-> (executed /\ success), result |-> ok,
                    had |-> DictHas(active_positions, t)])

\* limit_buy: the order is registered and a task is created for it.
LimitBuy ==
    /\ env.program = "manual_trade"
    /\ BagCardinality(tasks) < MaxTasks
    /\ \E t \in env.tokens, amount \in env.amounts, price \in env.targets,
          take_profit \in env.take_profits, stop_loss \in env.stop_losses :
        MtStep(active_positions,
               DictSet(pending_orders, t, TradeConfig(t, amount, price, take_profit, stop_loss)),
               heap,
               tasks (+) One(Task(t, "ready", None, NoOrder)),
               sells,
               [kind |-> "limit_buy", token |-> t, result |-> TRUE,
                amount |-> amount, price |-> price, take_profit |-> take_profit,
                stop_loss |-> stop_loss, had |-> DictHas(pending_orders, t)])

\* _monitor_limit_order, when it starts and after its sleep: the test of the while.
TaskWake ==
    \E task \in BagToSet(tasks) :
        /\ task.pc = "ready"
        /\ IF DictHas(pending_orders, task.token)
           THEN MtStep(active_positions, pending_orders, heap,
                       (tasks (-) One(task)) (+) One([task EXCEPT !.pc = "price"]),
                       sells, NoEvent)
           ELSE MtStep(active_positions, pending_orders, heap, tasks (-) One(task), sells,
                       [kind |-> "task_end", token |-> task.token, how |-> "no order"])

\* ShouldBuy with < for <=.
ShouldBuy_Strict(current_price, order) == ~Falsy(current_price) /\ current_price < order.price

\* The condition of line 238: current_price and current_price <= order.price
ShouldBuy(current_price, order) == ~Falsy(current_price) /\ current_price <= order.price

\* _monitor_limit_order from the return of _get_token_price to the next await.
\* The order is read again here; its absence is a KeyError, which ends the task.
TaskPrice ==
    \E task \in BagToSet(tasks), current_price \in env.prices \cup {None} :
        /\ task.pc = "price"
        /\ IF ~DictHas(pending_orders, task.token)
           THEN MtStep(active_positions, pending_orders, heap, tasks (-) One(task), sells,
                       [kind |-> "task_end", token |-> task.token, how |-> "error"])
           ELSE LET order == DictGet(pending_orders, task.token)
                    buy == ShouldBuy(current_price, order)
                    next == IF buy THEN [task EXCEPT !.pc = "buy", !.order = order,
                                                     !.current_price = current_price]
                                   ELSE [task EXCEPT !.pc = "ready"]
                IN  MtStep(active_positions, pending_orders, heap,
                           (tasks (-) One(task)) (+) One(next), sells,
                           [kind |-> "poll", token |-> task.token, observed |-> current_price,
                            target |-> order.price, buy |-> buy,
                            exec_amount |-> IF buy THEN order.amount ELSE None,
                            exec_price |-> IF buy THEN order.price ELSE None])

\* FilledPosition with the observed price as entry_price.
FilledPosition_AtObserved(order, current_price) ==
    Position(order.token_address, current_price, order.amount, order.take_profit,
             order.stop_loss, "limit")

\* The Position that a filled order leaves.
FilledPosition(order, current_price) ==
    Position(order.token_address, order.price, order.amount, order.take_profit,
             order.stop_loss, "limit")

\* StoreFilled with the del of line 255 before the assignment of line 247: the
\* KeyError of a cancelled order then leaves the bought token without Position.
StoreFilled_AfterDel(ap, po, t, id) == IF DictHas(po, t) THEN DictSet(ap, t, Ref(t, id)) ELSE ap

\* active_positions after line 247, which runs before the del of the order.
StoreFilled(ap, po, t, id) == DictSet(ap, t, Ref(t, id))

\* AfterFailedBuy with the failure raised to the except of line 261.
AfterFailedBuy_Ends(tk, task) == tk (-) One(task)

\* The tasks after a buy that returned False: the task sleeps (line 259) and
\* tests its order again.
AfterFailedBuy(tk, task) ==
    (tk (-) One(task))
        (+) One([task EXCEPT !.pc = "ready", !.order = NoOrder, !.current_price = None])

\* _monitor_limit_order from the return of _execute_buy: on success the Position
\* is stored and the order deleted (a KeyError of the del ends the task after
\* the Position was stored), otherwise the task sleeps.
TaskBuy ==
    \E task \in BagToSet(tasks), success \in BOOLEAN :
        /\ task.pc = "buy"
        /\ LET t == task.token
               id == FreshId(heap)
           IN  IF success
               THEN MtStep(StoreFilled(active_positions, pending_orders, t, id),
                           DictDel(pending_orders, t),
                           Put(heap, id, FilledPosition(task.order, task.current_price)),
                           tasks (-) One(task), sells,
                           [kind |-> "fill", token |-> t, success |-> TRUE,
                            observed |-> task.current_price, order |-> task.order,
                            had_order |-> DictHas(pending_orders, t),
                            had_position |-> DictHas(active_positions, t)])
               ELSE MtStep(active_positions, pending_orders, heap,
                           AfterFailedBuy(tasks, task),
                           sells,
                           [kind |-> "fill", token |-> t, success |-> FALSE,
                            observed |-> task.current_price, order |-> task.order,
                            had_order |-> DictHas(pending_orders, t),
                            had_position |-> DictHas(active_positions, t)])

\* market_sell up to its first await (lines 164-170).
SellStart ==
    /\ env.program = "manual_trade"
    /\ \E t \in env.tokens, amount \in env.sell_amounts :
        IF ~DictHas(active_positions, t)
        THEN MtStep(active_positions, pending_orders, heap, tasks, sells,
                    [kind |-> "market_sell", token |-> t, amount |-> amount,
                     result |-> FALSE, executed |-> FALSE, how |-> "no position"])
        ELSE /\ BagCardinality(sells) < MaxSells
             /\ LET id == DictGet(active_positions, t).position
                    sell_amount == IF Falsy(amount) THEN heap[id].amount ELSE amount
                IN  MtStep(active_positions, pending_orders, heap, tasks,
                           sells (+) One(Sell(t, amount, sell_amount, id, "price")),
                           NoEvent)

\* market_sell from the return of _get_token_price (lines 172-179).
SellPrice ==
    \E s \in BagToSet(sells), current_price \in env.prices \cup {None} :
        /\ s.pc = "price"
        /\ IF Falsy(current_price)
           THEN MtStep(active_positions, pending_orders, heap, tasks, sells (-) One(s),
                       [kind |-> "market_sell", token |-> s.token, amount |-> s.amount,
                        result |-> FALSE, executed |-> FALSE, how |-> "no price"])
           ELSE MtStep(active_positions, pending_orders, heap, tasks,
                       (sells (-) One(s)) (+) One([s EXCEPT !.pc = "sell"]),
                       [kind |-> "sell_exec", token |-> s.token, amount |-> s.amount,
                        sell_amount |-> s.sell_amount, price |-> current_price,
                        held |-> heap[s.position].amount,
                        tracked |-> (DictHas(active_positions, s.token)
                                     /\ DictGet(active_positions, s.token).position = s.position)])

\* SoldPositions with the del of line 182 made before success is tested.
SoldPositions_BeforeResult(ap, t, success, whole) == IF whole THEN DictDel(ap, t) ELSE ap

\* active_positions after lines 180-184: the entry of the token is deleted when
\* the sell succeeded and was of the whole position.
SoldPositions(ap, t, success, whole) == IF success /\ whole THEN DictDel(ap, t) ELSE ap

\* market_sell from the return of _execute_sell (lines 180-188); a KeyError of
\* the del is caught at line 190 and the call returns False.
SellDone ==
    \E s \in BagToSet(sells), success \in BOOLEAN :
        /\ s.pc = "sell"
        /\ LET t == s.token
               obj == heap[s.position]
               whole == s.amount = None \/ s.amount >= obj.amount
               raises == success /\ whole /\ ~DictHas(active_positions, t)
               ev == [kind |-> "market_sell", token |-> t, amount |-> s.amount,
                      sold |-> s.sell_amount,
                      result |-> (success /\ ~raises), executed |-> TRUE,
                      how |-> IF ~success THEN "sell failed"
                              ELSE IF raises THEN "error"
                              ELSE IF whole THEN "closed" ELSE "reduced"]
           IN  MtStep(SoldPositions(active_positions, t, success, whole), pending_orders,
                      IF success /\ ~whole
                      THEN [heap EXCEPT ![s.position].amount = @ - s.amount] ELSE heap,
                      tasks, sells (-) One(s), ev)

\* UpdatedLevel without the tests of lines 204 and 208.
UpdatedLevel_Always(old, new) == new

\* An exit level after update_tp_sl: assigned when the argument is not None.
UpdatedLevel(old, new) == IF new # None THEN new ELSE old

\* update_tp_sl
UpdateTpSl ==
    /\ env.program = "manual_trade"
    /\ \E t \in env.tokens, take_profit \in env.take_profits, stop_loss \in env.stop_losses :
        IF ~DictHas(active_positions, t)
        THEN MtStep(active_positions, pending_orders, heap, tasks, sells,
                    [kind |-> "update_tp_sl", token |-> t, result |-> FALSE,
                     take_profit |-> take_profit, stop_loss |-> stop_loss])
        ELSE LET id == DictGet(active_positions, t).position
                 obj == heap[id]
             IN  MtStep(active_positions, pending_orders,
                        [heap EXCEPT ![id] =
                            [obj EXCEPT !.take_profit = UpdatedLevel(@, take_profit),
                                        !.stop_loss = UpdatedLevel(@, stop_loss)]],
                        tasks, sells,
                        [kind |-> "update_tp_sl", token |-> t, result |-> TRUE,
                         take_profit |-> take_profit, stop_loss |-> stop_loss])

\* CancelLimitOrder written with pop(token_address, None): True whatever was there.
CancelLimitOrder_AlwaysTrue ==
    /\ env.program = "manual_trade"
    /\ \E t \in env.tokens :
        MtStep(active_positions, DictDel(pending_orders, t), heap, tasks, sells,
               [kind |-> "cancel_limit_order", token |-> t, result |-> TRUE])

\* cancel_limit_order
CancelLimitOrder ==
    /\ env.program = "manual_trade"
    /\ \E t \in env.tokens :
        IF DictHas(pending_orders, t)
        THEN MtStep(active_positions, DictDel(pending_orders, t), heap,
                    MarkCancelled(tasks, t), sells,
                    [kind |-> "cancel_limit_order", token |-> t, result |-> TRUE])
        ELSE MtStep(active_positions, pending_orders, heap, tasks, sells,
                    [kind |-> "cancel_limit_order", token |-> t, result |-> FALSE])

MtNext ==
    \/ MarketBuy \/ LimitBuy \/ TaskWake \/ TaskPrice \/ TaskBuy
    \/ SellStart \/ SellPrice \/ SellDone \/ UpdateTpSl \/ CancelLimitOrder

(***************************************************************************)
(* TokenWhitelist                                                          *)
(***************************************************************************)
\* A dict with string keys, in insertion order.
KvHas(d, k) == \E i \in 1..Len(d) : d[i].key = k
KvGet(d, k) == d[CHOOSE i \in 1..Len(d) : d[i].key = k].value
KvSet(d, k, v) ==
    IF KvHas(d, k)
    THEN [i \in 1..Len(d) |-> IF d[i].key = k THEN [key |-> k, value |-> v] ELSE d[i]]
    ELSE Append(d, [key |-> k, value |-> v])

\* json.dump of a str, of a number and of a bool, and what json.load makes
\* of each.  Numbers are integers, as the prices are; a float is written by
\* repr and read back as the same float.
JsonString(x) == [json |-> "string", chars |-> x]
JsonNumber(x) == [json |-> "number", digits |-> x]

\* JsonBool that writes every flag as true.
JsonBool_AlwaysTrue(x) == [json |-> "true"]

JsonBool(x) == [json |-> IF x THEN "true" ELSE "false"]

PyValue(j) ==
    CASE j.json = "string" -> j.chars
      [] j.json = "number" -> j.digits
      [] j.json = "true" -> TRUE
      [] j.json = "false" -> FALSE

\* The dict comprehensions of save_config and load_config write and read each
\* dict as a JSON object: the keys are strings, the values are converted.

\* save_config, lines 125-132, and TokenConfig(**details), line 57.
SaveToken(token) ==
    [address |-> JsonString(token.address), symbol |-> JsonString(token.symbol),
     name |-> JsonString(token.name), decimals |-> JsonNumber(token.decimals),
     min_liquidity |-> JsonNumber(token.min_liquidity), enabled |-> JsonBool(token.enabled)]
LoadToken(details) ==
    [address |-> PyValue(details.address), symbol |-> PyValue(details.symbol),
     name |-> PyValue(details.name), decimals |-> PyValue(details.decimals),
     min_liquidity |-> PyValue(details.min_liquidity), enabled |-> PyValue(details.enabled)]

\* save_config, lines 136-139, and DexInfo(**details), line 62.
SaveDexInfo(dex) == [name |-> JsonString(dex.name), enabled |-> JsonBool(dex.enabled)]
LoadDexInfo(details) == [name |-> PyValue(details.name), enabled |-> PyValue(details.enabled)]

\* save_config, lines 145-148, and DexConfig(**details), line 68.
SaveDexConfig(dex) ==
    [pool_address |-> JsonString(dex.pool_address), enabled |-> JsonBool(dex.enabled)]
LoadDexConfig(details) ==
    [pool_address |-> PyValue(details.pool_address), enabled |-> PyValue(details.enabled)]

\* save_config, lines 143-154, and PairConfig(...), lines 67-72.
SavePair(pair_config) ==
    [dexes |-> [j \in 1..Len(pair_config.dexes) |->
                   [key |-> JsonString(pair_config.dexes[j].key),
                    value |-> SaveDexConfig(pair_config.dexes[j].value)]],
     min_trade_size |-> JsonNumber(pair_config.min_trade_size),
     max_trade_size |-> JsonNumber(pair_config.max_trade_size),
     enabled |-> JsonBool(pair_config.enabled)]
LoadPair(pair_details) ==
    [dexes |-> [j \in 1..Len(pair_details.dexes) |->
                   [key |-> PyValue(pair_details.dexes[j].key),
                    value |-> LoadDexConfig(pair_details.dexes[j].value)]],
     min_trade_size |-> PyValue(pair_details.min_trade_size),
     max_trade_size |-> PyValue(pair_details.max_trade_size),
     enabled |-> PyValue(pair_details.enabled)]

\* The document that save_config writes.  config_path has a directory part
\* ("config/token_whitelist.json"), so that os.makedirs does not raise.
SaveConfig(tokens, dexes, pairs) ==
    [tokens |-> [i \in 1..Len(tokens) |->
                    [key |-> JsonString(tokens[i].key), value |-> SaveToken(tokens[i].value)]],
     dexes |-> [i \in 1..Len(dexes) |->
                   [key |-> JsonString(dexes[i].key), value |-> SaveDexInfo(dexes[i].value)]],
     pairs |-> [i \in 1..Len(pairs) |->
                   [key |-> JsonString(pairs[i].key), value |-> SavePair(pairs[i].value)]]]

\* The defaults of a new configuration and of add_token and add_pair.
DefaultDexes ==
    << [key |-> "raydium", value |-> [name |-> "Raydium", enabled |-> TRUE]],
       [key |-> "orca", value |-> [name |-> "Orca", enabled |-> TRUE]] >>
DefaultMinLiquidity == 1000
DefaultMinTradeSize == 10
DefaultMaxTradeSize == 1000

\* load_config: the three dicts of the document, or those of a new
\* configuration when there is no file.
LoadConfig(file) ==
    IF file = NoFile
    THEN [tokens |-> <<>>, dexes |-> DefaultDexes, pairs |-> <<>>]
    ELSE [tokens |-> [i \in 1..Len(file.tokens) |->
                         [key |-> PyValue(file.tokens[i].key),
                          value |-> LoadToken(file.tokens[i].value)]],
          dexes |-> [i \in 1..Len(file.dexes) |->
                        [key |-> PyValue(file.dexes[i].key),
                         value |-> LoadDexInfo(file.dexes[i].value)]],
          pairs |-> [i \in 1..Len(file.pairs) |->
                        [key |-> PyValue(file.pairs[i].key),
                         value |-> LoadPair(file.pairs[i].value)]]]

\* TokenWhitelist.__init__: load_config, which saves a new configuration.
WlInit ==
    LET loaded == LoadConfig(env.config)
    IN  /\ wl_tokens = loaded.tokens
        /\ wl_dexes = loaded.dexes
        /\ wl_pairs = loaded.pairs
        /\ config_file = IF env.config = NoFile
                         THEN SaveConfig(loaded.tokens, loaded.dexes, loaded.pairs)
                         ELSE env.config

\* The state of the TokenWhitelist after a call.
WlStep(tokens, dexes, pairs, file, ev) ==
    /\ wl_tokens' = tokens
    /\ wl_dexes' = dexes
    /\ wl_pairs' = pairs
    /\ config_file' = file
    /\ event' = ev
    /\ UNCHANGED <<env, rm_vars, mt_vars, mm_vars>>

\* add_token, with the default min_liquidity.
AddToken ==
    /\ env.program = "token_whitelist"
    /\ \E symbol \in env.symbols, address \in env.tokens, decimals \in env.decimals :
        LET token == [address |-> address, symbol |-> symbol, name |-> symbol,
                      decimals |-> decimals, min_liquidity |-> DefaultMinLiquidity,
                      enabled |-> TRUE]
            tokens == KvSet(wl_tokens, symbol, token)
        IN  WlStep(tokens, wl_dexes, wl_pairs, SaveConfig(tokens, wl_dexes, wl_pairs),
                   [kind |-> "add_token", symbol |-> symbol])

\* add_pair: ValueError for a symbol that is not whitelisted and for an
\* unknown DEX, before anything is written.
AddPair ==
    /\ env.program = "token_whitelist"
    /\ \E base_symbol \in env.symbols, quote_symbol \in env.symbols, dex_configs \in env.dex_configs :
        LET raises == \/ ~KvHas(wl_tokens, base_symbol) \/ ~KvHas(wl_tokens, quote_symbol)
                      \/ \E i \in 1..Len(dex_configs) : ~KvHas(wl_dexes, dex_configs[i].key)
            pair_config ==
                [dexes |-> [i \in 1..Len(dex_configs) |->
                              [key |-> dex_configs[i].key,
                               value |-> [pool_address |-> dex_configs[i].value.pool_address,
                                          enabled |-> TRUE]]],
                 min_trade_size |-> DefaultMinTradeSize,
                 max_trade_size |-> DefaultMaxTradeSize, enabled |-> TRUE]
            pairs == IF raises THEN wl_pairs
                     ELSE KvSet(wl_pairs, <<base_symbol, "/", quote_symbol>>, pair_config)
        IN  WlStep(wl_tokens, wl_dexes, pairs,
                   IF raises THEN config_file ELSE SaveConfig(wl_tokens, wl_dexes, pairs),
                   [kind |-> "add_pair", base |-> base_symbol, quote |-> quote_symbol,
                    raised |-> raises])

\* load_config on the file that is there: what a TokenWhitelist built on the
\* same path holds.
Reload ==
    /\ env.program = "token_whitelist"
    /\ LET loaded == LoadConfig(config_file)
       IN  WlStep(loaded.tokens, loaded.dexes, loaded.pairs, config_file,
                  [kind |-> "load_config"])

\* is_token_whitelisted: some token of the whitelist has the address.
IsTokenWhitelisted(address) ==
    \E i \in 1..Len(wl_tokens) : wl_tokens[i].value.address = address

WlNext == AddToken \/ AddPair \/ Reload

(***************************************************************************)
(* The opportunity pipeline: MEVBot.monitor_mempool                        *)
(***************************************************************************)
\* The None of an Optional[Dict] and of an Optional[str].
NoOpportunity == [type |-> "None"]
NoStrategy == "None"

\* The settings of EnhancedMempoolMonitor: the window in seconds, the volumes,
\* and MIN_PROFIT_THRESHOLD (0.05) in percent.
volume_window == 300
min_volume == 1000
large_trade_threshold == 5000
MinProfitThreshold == 5

\* The dict that analyze_transaction_intent returns, with the values that the
\* placeholders _determine_tx_type and _calculate_priority_score give.
Opportunity(info, estimated_profit, market_analysis) ==
    [type |-> "unknown", tokens |-> info.addresses, volume |-> info.volume_usd,
     estimated_profit |-> estimated_profit,
     market_conditions |-> market_analysis, priority_score |-> 0]

\* The samples of a token in a volume history.
SamplesOf(h, t) == IF DictHas(h, t) THEN DictGet(h, t).samples ELSE <<>>

RECURSIVE SumVolumes(_)
SumVolumes(samples) ==
    IF samples = <<>> THEN 0 ELSE Head(samples).volume + SumVolumes(Tail(samples))

RECURSIVE Samples(_)
Samples(h) == IF h = <<>> THEN 0 ELSE Len(Head(h).samples) + Samples(Tail(h))

\* _update_volume_history, lines 244-249: every token keeps the samples that
\* are later than the cutoff.
Pruned(h, cutoff_time) ==
    [i \in 1..Len(h) |->
        [h[i] EXCEPT !.samples = SelectSeq(@, LAMBDA v : v.timestamp > cutoff_time)]]

\* _update_volume_history, lines 252-259: one sample for each pair of zip.
RECURSIVE Added(_, _, _, _)
Added(h, addresses, amounts, current_time) ==
    IF addresses = <<>> \/ amounts = <<>>
    THEN h
    ELSE LET addr == Head(addresses)
             sample == [timestamp |-> current_time, volume |-> Head(amounts)]
         IN  Added(DictSet(h, addr, [token_address |-> addr,
                                     samples |-> Append(SamplesOf(h, addr), sample)]),
                   Tail(addresses), Tail(amounts), current_time)

UpdateVolumeHistory(h, info, current_time) ==
    Added(Pruned(h, current_time - volume_window), info.addresses, info.amounts, current_time)

\* Recorded with the samples appended before the whitelist is asked.
Recorded_BeforeCheck(h, info, listed, current_time) == UpdateVolumeHistory(h, info, current_time)

\* Lines 194-199: the volume history after the whitelist test.
Recorded(h, info, listed, current_time) ==
    IF listed THEN UpdateVolumeHistory(h, info, current_time) ELSE h

\* IsLargeTrade that takes every volume.
IsLargeTrade_Always(volume_usd) == TRUE

\* _is_large_trade
IsLargeTrade(volume_usd) == volume_usd >= large_trade_threshold

\* _calculate_recent_volume
CalculateRecentVolume(h, t) == SumVolumes(SamplesOf(h, t))

\* _is_volume_increasing: the samples from the middle of the list on against
\* the samples before the middle.
IsVolumeIncreasing(h, t) ==
    LET history == SamplesOf(h, t)
        mid_point == Len(history) \div 2
    IN  /\ DictHas(h, t)
        /\ Len(history) >= 2
        /\ SumVolumes(SubSeq(history, mid_point + 1, Len(history)))
             > SumVolumes(SubSeq(history, 1, mid_point))

\* _analyze_market_conditions, on the first address; the IndexError of an
\* empty list of addresses is caught at line 293.
AnalyzeMarketConditions(h, info) ==
    IF info.addresses = <<>>
    THEN [favorable |-> FALSE]
    ELSE LET t == Head(info.addresses)
             recent_volume == CalculateRecentVolume(h, t)
             volume_increasing == IsVolumeIncreasing(h, t)
         IN  [favorable |-> (recent_volume > min_volume /\ volume_increasing),
              recent_volume |-> recent_volume,
              volume_trend |-> IF volume_increasing THEN "increasing" ELSE "decreasing"]

\* The weights of _score_strategy, in tenths: a score of the model is ten
\* times the score of the code.  For parts in {-1, 0, 1} the floating-point
\* sum (h * 0.3) + (m * 0.3) + (o * 0.4) has the sign of 3h + 3m + 4o and two
\* such sums compare as the integers do.
HistoricalWeight == 3
MarketWeight == 3
OpportunityWeight == 4

\* _score_strategy, from what _get_historical_performance,
\* _evaluate_market_conditions and _score_opportunity_fit return.
ScoreStrategy(parts) ==
    parts.hist * HistoricalWeight + parts.market * MarketWeight + parts.opp * OpportunityWeight

\* The dict `scores` of select_best_strategy, in the order of self.strategies.
Scores(names, parts) ==
    [i \in 1..Len(names) |-> [name |-> names[i], score |-> ScoreStrategy(parts[i])]]

\* max(scores.items(), key=lambda x: x[1]): the first item that no item exceeds.
MaxItem(scores) ==
    scores[CHOOSE i \in 1..Len(scores) :
             /\ \A j \in 1..Len(scores) : scores[j].score <= scores[i].score
             /\ \A j \in 1..(i - 1) : scores[j].score < scores[i].score]

\* Selected without the test of line 357.
Selected_Unchecked(best) == best.name

\* Line 357: the best strategy counts only with a score above 0.
Selected(best) == IF best.score > 0 THEN best.name ELSE NoStrategy

SelectBestStrategy(scores) ==
    IF scores = <<>> THEN NoStrategy ELSE Selected(MaxItem(scores))

\* Raises with asyncio.gather(..., return_exceptions=True).
Raises_ReturnExceptions(checks) == FALSE

\* asyncio.gather hands the first exception of a predicate to its caller.
Raises(checks) == \E k \in DOMAIN checks : checks[k] = "raise"

\* all(checks): every element is true (an object that is not False is).
All(checks) == \A k \in DOMAIN checks : checks[k] # "False"

\* check_execution_safety: the except of line 471 answers False.
CheckExecutionSafety(checks) == IF Raises(checks) THEN FALSE ELSE All(checks)

\* AfterGate without the test of line 211.
AfterGate_Always(approved) == "build"

\* Line 211: _execute_strategy is called only if the gate answered True.
AfterGate(approved) == IF approved THEN "build" ELSE "stream"

\* The strategies _build_transaction has instructions for.
KnownStrategies == {"sandwich", "arbitrage", "jit_liquidity"}

\* _build_transaction returns a Transaction (TRUE) or None (FALSE).
BuildTransaction(name, instructions, blockhash, raises) ==
    name \in KnownStrategies /\ instructions /\ blockhash /\ ~raises

\* RiskManager.update_stats of advanced_strategies.py.
UpdateStats(stats, trade_result) ==
    IF trade_result.success
    THEN [total_trades |-> stats.total_trades + 1,
          successful_trades |-> stats.successful_trades + 1,
          total_profit |-> stats.total_profit + trade_result.profit]
    ELSE [stats EXCEPT !.total_trades = @ + 1]

\* What one stage answered: passed is FALSE for None, for a denial, for a
\* failed execution and for an exception.
Stage(name, passed) == [stage |-> name, passed |-> passed]

MmInit ==
    /\ mm_pc = "stream"
    /\ analysis = NoOpportunity
    /\ strategy = NoStrategy
    /\ stages = <<>>
    /\ daily_stats = [total_profit |-> 0, total_trades |-> 0, successful_trades |-> 0]
    /\ tx_parts = <<>>
    /\ parts_done = <<>>
    /\ volume_history = <<>>
    /\ token_info = NoTokenInfo

\* The state of the pipeline after a step of the stages before the executor.
MmStep(pc, an, st, sg, ds, ev) ==
    /\ mm_pc' = pc
    /\ analysis' = an
    /\ strategy' = st
    /\ stages' = sg
    /\ daily_stats' = ds
    /\ tx_parts' = <<>>
    /\ parts_done' = <<>>
    /\ event' = ev
    /\ UNCHANGED <<env, rm_vars, mt_vars, wl_vars, volume_history, token_info>>

\* time passes
MmTick ==
    /\ env.program = "monitor_mempool"
    /\ \E t \in env.times : t > now /\ now' = t
    /\ event' = NoEvent
    /\ UNCHANGED <<env, positions, rm_pc, rm_time, rm_todo, mt_vars, mm_vars, wl_vars>>

\* `async for tx_data in monitor.stream_transactions()`: the stream yields the
\* next transaction or raises (EnhancedMempoolMonitor as written has neither
\* __aenter__ nor stream_transactions, so that it raises).  The locals of the
\* iteration before are not read again: they start as None.
\* analyze_transaction_intent is entered with the transaction: it returns None
\* for a transaction that _is_valid_transaction refuses, and else awaits
\* _extract_token_info.
StreamTransactions ==
    /\ env.program = "monitor_mempool"
    /\ mm_pc = "stream"
    /\ \E yields \in BOOLEAN, valid \in BOOLEAN :
        /\ yields => Samples(volume_history) < MaxSamples
        /\ MmStep(IF ~yields THEN "backoff" ELSE IF valid THEN "analyze" ELSE "stream",
                  NoOpportunity, NoStrategy,
                  IF yields /\ ~valid THEN <<Stage("analyze", FALSE)>> ELSE <<>>,
                  daily_stats,
                  [kind |-> "stream_transactions", yields |-> yields, valid |-> valid])

\* except Exception of line 215: asyncio.sleep(1), then the stream is opened again.
Backoff ==
    /\ mm_pc = "backoff"
    /\ MmStep("stream", analysis, strategy, stages, daily_stats, [kind |-> "backoff"])

\* analyze_transaction_intent returns to monitor_mempool: `if analysis:`.
AnalyzeReturn(an, h, ev) ==
    /\ mm_pc' = IF an # NoOpportunity THEN "select" ELSE "stream"
    /\ analysis' = an
    /\ stages' = Append(stages, Stage("analyze", an # NoOpportunity))
    /\ volume_history' = h
    /\ token_info' = NoTokenInfo
    /\ event' = ev
    /\ UNCHANGED <<env, rm_vars, mt_vars, wl_vars, strategy, daily_stats, tx_parts, parts_done>>

\* analyze_transaction_intent from the return of _extract_token_info to the
\* await of _estimate_profit_potential (lines 190-207).
AnalyzeTokenInfo ==
    /\ mm_pc = "analyze"
    /\ \E info \in env.observations :
        IF info = NoTokenInfo
        THEN AnalyzeReturn(NoOpportunity, volume_history,
                           [kind |-> "analyze_transaction_intent", token_info |-> info,
                            rejected |-> "token_info"])
        ELSE LET listed == \A i \in 1..Len(info.addresses) :
                               IsTokenWhitelisted(info.addresses[i])
                 h == Recorded(volume_history, info, listed, now)
             IN  /\ Samples(h) <= MaxSamples
                 /\ IF listed /\ IsLargeTrade(info.volume_usd)
                    THEN /\ mm_pc' = "profit"
                         /\ volume_history' = h
                         /\ token_info' = info
                         /\ event' = [kind |-> "update_volume_history", token_info |-> info,
                                      at |-> now]
                         /\ UNCHANGED <<env, rm_vars, mt_vars, wl_vars, analysis, strategy,
                                        stages, daily_stats, tx_parts, parts_done>>
                    ELSE AnalyzeReturn(NoOpportunity, h,
                                       [kind |-> "analyze_transaction_intent",
                                        token_info |-> info,
                                        rejected |-> IF listed THEN "volume" ELSE "whitelist"])

\* Line 208: the estimate is not below MIN_PROFIT_THRESHOLD.
ProfitSuffices(estimated_profit) == ~(estimated_profit < MinProfitThreshold)

\* Line 213
Favours(market_analysis) == market_analysis.favorable

\* analyze_transaction_intent from the return of _estimate_profit_potential
\* (lines 207-223): the volume history is read as it is now.
AnalyzeProfit ==
    /\ mm_pc = "profit"
    /\ \E estimated_profit \in env.profits :
        LET market_analysis == AnalyzeMarketConditions(volume_history, token_info)
        IN  IF ~ProfitSuffices(estimated_profit)
            THEN AnalyzeReturn(NoOpportunity, volume_history,
                               [kind |-> "analyze_transaction_intent",
                                token_info |-> token_info, rejected |-> "profit"])
            ELSE AnalyzeReturn(IF Favours(market_analysis)
                               THEN Opportunity(token_info, estimated_profit, market_analysis)
                               ELSE NoOpportunity,
                               volume_history,
                               [kind |-> "analyze_transaction_intent",
                                token_info |-> token_info,
                                rejected |-> IF Favours(market_analysis) THEN "no" ELSE "market",
                                market_analysis |-> market_analysis, read_at |-> now])

\* strategy = await ...select_best_strategy(analysis); if strategy:
SelectStrategy ==
    /\ mm_pc = "select"
    /\ \E parts \in [1..Len(env.strategies) ->
                        [hist : env.sub_scores, market : env.sub_scores, opp : env.sub_scores]] :
        LET scores == Scores(env.strategies, parts)
            st == SelectBestStrategy(scores)
        IN  MmStep(IF st # NoStrategy THEN "gate" ELSE "stream",
                   analysis, st, Append(stages, Stage("select", st # NoStrategy)),
                   daily_stats,
                   [kind |-> "select_best_strategy", registered |-> env.strategies,
                    scores |-> scores, result |-> st])

\* if await ...check_execution_safety(analysis):
CheckSafety ==
    /\ mm_pc = "gate"
    /\ \E checks \in [price_impact : env.outcomes, liquidity : env.outcomes,
                       competition : env.outcomes, network : env.outcomes] :
        LET approved == CheckExecutionSafety(checks)
        IN  MmStep(AfterGate(approved), analysis, strategy,
                   Append(stages, Stage("gate", approved)), daily_stats,
                   [kind |-> "check_execution_safety", checks |-> checks,
                    result |-> approved])

\* _execute_strategy up to `if tx:`.
ExecuteStrategyBuild ==
    /\ mm_pc = "build"
    /\ \E instructions \in BOOLEAN, blockhash \in BOOLEAN, raises \in BOOLEAN :
        LET tx == BuildTransaction(strategy, instructions, blockhash, raises)
        IN  MmStep(IF tx THEN "execute" ELSE "stream", analysis, strategy,
                   Append(stages, Stage("build", tx)), daily_stats,
                   [kind |-> "build_transaction", result |-> tx])

\* The bounds of the delay, in tenths of a second.
min_delay == 1
max_delay == 20

\* A step of execute_stealth_transaction that does not return.
StealthStep(pc, parts, done, ev) ==
    /\ mm_pc' = pc
    /\ tx_parts' = parts
    /\ parts_done' = done
    /\ event' = ev
    /\ UNCHANGED <<env, rm_vars, mt_vars, wl_vars, analysis, strategy, stages, daily_stats,
                   volume_history, token_info>>

\* execute_stealth_transaction returns success to _execute_strategy, which on
\* success builds the argument of update_stats from the opportunity.  The
\* KeyError of a key that the opportunity does not have is caught by the
\* except of line 240, before update_stats is entered.
StealthReturn(success, raised, parts, done) ==
    LET has_key == "estimated_value" \in DOMAIN analysis
        ds == IF success /\ has_key
              THEN UpdateStats(daily_stats, [success |-> TRUE, profit |-> analysis.estimated_value])
              ELSE daily_stats
    IN  /\ mm_pc' = "stream"
        /\ stages' = Append(stages, Stage("execute", success))
        /\ daily_stats' = ds
        /\ tx_parts' = parts
        /\ parts_done' = done
        /\ event' = [kind |-> "execute_stealth_transaction", success |-> success,
                     raised |-> raised, tokens |-> analysis.tokens,
                     stats_updated |-> (success /\ has_key)]
        /\ UNCHANGED <<env, rm_vars, mt_vars, wl_vars, analysis, strategy,
                       volume_history, token_info>>

\* execute_stealth_transaction up to `await asyncio.sleep(delay)`: the wallet
\* and the delay of the strategy type.  The delay is slept as it is returned.
StealthDelay ==
    /\ mm_pc = "execute"
    /\ \E delay \in env.delays :
        StealthStep("sleep", <<>>, <<>>,
                    [kind |-> "stealth_delay", strategy |-> strategy, delay |-> delay])

\* After the sleep: tx_parts = self._split_transaction(tx), success = True,
\* and the loop calls _execute_tx_part for the first part, or returns success
\* when there is no part.
StealthSplit ==
    /\ mm_pc = "sleep"
    /\ \E n \in env.splits :
        LET parts == [i \in 1..n |-> i]
        IN  IF parts = <<>>
            THEN StealthReturn(TRUE, FALSE, parts, <<>>)
            ELSE StealthStep("part", parts, <<>>, [kind |-> "stealth_split", parts |-> parts])

\* GoesOn without the break of line 418.
GoesOn_NoBreak(success, more) == more

\* Lines 415-418: the loop goes on to the next part if there is one and no
\* part has failed.
GoesOn(success, more) == success /\ more

\* One iteration of the loop, from the return of _execute_tx_part:
\* success &= its answer.  An exception leaves the loop for the except of
\* line 422, which returns False.
StealthPart ==
    /\ mm_pc = "part"
    /\ \E outcome \in env.part_outcomes :
        LET part == tx_parts[Len(parts_done) + 1]
            done == Append(parts_done, [part |-> part, ok |-> (outcome = "True")])
            success == \A i \in 1..Len(done) : done[i].ok
            more == Len(done) < Len(tx_parts)
        IN  IF outcome # "raise" /\ GoesOn(success, more)
            THEN StealthStep("part", tx_parts, done,
                             [kind |-> "stealth_part", part |-> part, outcome |-> outcome])
            ELSE StealthReturn(outcome # "raise" /\ success, outcome = "raise", tx_parts, done)

MmNext ==
    \/ MmTick \/ StreamTransactions \/ Backoff \/ AnalyzeTokenInfo \/ AnalyzeProfit
    \/ SelectStrategy
    \/ CheckSafety \/ ExecuteStrategyBuild \/ StealthDelay \/ StealthSplit \/ StealthPart

(***************************************************************************)
(* The program                                                             *)
(***************************************************************************)
\* dex_configs of add_pair: a pool on a DEX of the configuration, and a pool on
\* a DEX that the configuration does not have.
Raydium == <<[key |-> "raydium", value |-> [pool_address |-> "P1"]]>>
Serum == <<[key |-> "serum", value |-> [pool_address |-> "P2"]]>>

\* A configuration file with a token, a DEX and a pair that are disabled, as
\* the JSON document that is on disk.
DisabledConfig ==
    LET S(x) == [json |-> "string", chars |-> x]
        N(x) == [json |-> "number", digits |-> x]
        false == [json |-> "false"]
    IN  [tokens |-> <<[key |-> S("B"),
                       value |-> [address |-> S("T2"), symbol |-> S("B"), name |-> S("B"),
                                  decimals |-> N(6), min_liquidity |-> N(500),
                                  enabled |-> false]]>>,
         dexes |-> <<[key |-> S("raydium"),
                      value |-> [name |-> S("Raydium"), enabled |-> false]]>>,
         pairs |-> <<[key |-> S(<<"B", "/", "B">>),
                      value |-> [dexes |-> <<[key |-> S("raydium"),
                                              value |-> [pool_address |-> S("P1"),
                                                         enabled |-> false]]>>,
                                 min_trade_size |-> N(5), max_trade_size |-> N(50),
                                 enabled |-> false]]>>]

Environments ==
    { Env("mev_bot", {"T1"}, {0, 85, 95, 117, 130}, {0, 100}, {0, 1000}, {}, {}, {}, {}, {}),
      Env("mev_bot", {"T1", "T2"}, {0, 85, 130}, {100}, {1000}, {}, {}, {}, {}, {}),
      Env("mev_bot", {"T1", "T2"}, {85}, {0}, {1000}, {}, {}, {}, {}, {}),
      Env("manual_trade", {"T1"}, {0, 49, 50, 55, 60}, {}, {}, {10}, {}, {50}, {None}, {None}),
      Env("manual_trade", {"T1"}, {55}, {}, {}, {10}, {4}, {}, {None}, {None}),
      Env("manual_trade", {"T1"}, {55}, {}, {}, {10}, {None}, {}, {None}, {None}),
      Env("manual_trade", {"T1"}, {55}, {}, {}, {10}, {0, 15}, {}, {None}, {None}),
      Env("manual_trade", {"T1"}, {49}, {}, {}, {10}, {}, {50}, {None, 70}, {None}),
      Env("manual_trade", {"T1"}, {49}, {}, {}, {10}, {}, {}, {None, 70}, {None, 40}),
      Env("manual_trade", {"T1", "T2"}, {}, {}, {}, {10}, {}, {50}, {None}, {None}),
      Env("manual_trade", {"T1", "T2"}, {49}, {}, {}, {10}, {}, {}, {None}, {None}),
      PipelineEnv({"T1"}, <<>>, {}, {"True"}),
      PipelineEnv({"T1"}, <<"sandwich">>, {-1, 0, 1}, {"True", "False", "raise"}),
      PipelineEnv({"T1"}, <<"sandwich", "momentum">>, {-1, 0, 1}, {"True"}),
      PipelineEnv({"T1"}, <<"arbitrage", "jit_liquidity", "sandwich">>, {0, 1}, {"True"}),
      StealthEnv({"T1"}, {0, 10}, {0, 1, 2, 3}, {"True", "False", "raise"}),
      AnalyzerEnv({"T1", "T2"}, {TokenInfo(<<"T1">>, <<400>>, 5000), TokenInfo(<<"T1">>, <<700>>, 5000)}, {0, 4, 5}, {0, 400}),
      AnalyzerEnv({"T1", "T2"}, {TokenInfo(<<"T1">>, <<700>>, 4999), TokenInfo(<<"T2">>, <<700>>, 5000), TokenInfo(<<"T1", "T2">>, <<700, 700>>, 5000), TokenInfo(<<>>, <<>>, 0), NoTokenInfo}, {5}, {}),
      WhitelistEnv({"T1"}, {"A", "B"}, {9}, {Raydium, Serum}, NoFile),
      WhitelistEnv({"T1", "T2"}, {"A"}, {6, 9}, {Raydium}, DisabledConfig) }

Init == env \in Environments /\ RmInit /\ MtInit /\ MmInit /\ WlInit /\ event = NoEvent

Next == RmNext \/ MtNext \/ MmNext \/ WlNext

Spec == Init /\ [][Next]_vars

(***************************************************************************)
(* Properties                                                              *)
(***************************************************************************)
UniqueKeys(d) ==
    \A i, j \in 1..Len(d) : d[i].token_address = d[j].token_address => i = j

\* C1: in every reachable state each token has at most one tracked Position
\* (in RiskManager.positions and in ManualTrader.active_positions) and at most
\* one PendingOrder.
C1_AtMostOnePerToken ==
    /\ UniqueKeys(positions)
    /\ UniqueKeys(active_positions)
    /\ UniqueKeys(pending_orders)

\* A second buy of a token that already has a Position, with two tokens tracked.
C1_Witness ==
    /\ event.kind = "market_buy" /\ event.result /\ event.had
    /\ Len(active_positions) = 2

\* C2: while a token has a Position, the highest_price of its Position does not
\* decrease from one state to the next.
C2_HighestNeverDecreases ==
    [][\A t \in env.tokens :
          DictHas(positions, t) /\ DictHas(positions', t)
          => DictGet(positions', t).highest_price >= DictGet(positions, t).highest_price]_vars

\* The conditions of the four triggers as the specification states them, on the
\* position as it was evaluated: price_drop = (entry - current) / entry and
\* drop_from_high = (highest - current) / highest, compared as percentages.
QuickLossHolds(e) ==
    /\ e.time_held <= 60
    /\ (e.position.entry_price - e.position.current_price) * 100
          >= quick_loss_threshold * e.position.entry_price
StopLossHolds(e) ==
    (e.position.entry_price - e.position.current_price) * 100
        >= stop_loss_threshold * e.position.entry_price
TrailingStopHolds(e) ==
    (e.position.highest_price - e.position.current_price) * 100
        >= trailing_stop_loss * e.position.highest_price
MaxHoldHolds(e) == e.time_held >= max_holding_time

\* An evaluation whose divisions are defined.
Evaluated == event.kind = "eval" /\ event.position.entry_price > 0
Removed == ~DictHas(positions, event.token)

C4_QuickLoss ==
    Evaluated /\ QuickLossHolds(event)
    => event.reasons = <<"Quick Loss Triggered">> /\ Removed

\* A drop of exactly 5% observed exactly 60 s after the entry.
C4_Witness ==
    /\ Evaluated /\ event.time_held = 60
    /\ event.position.entry_price = 100 /\ event.position.current_price = 95
    /\ event.reasons = <<"Quick Loss Triggered">> /\ Removed

\* C5: an evaluation with time_held > 60 and price_drop >= stop_loss_threshold
\* sells with reason Stop Loss and removes the Position.
C5_StopLoss ==
    Evaluated /\ event.time_held > 60 /\ StopLossHolds(event)
    => event.reasons = <<"Stop Loss Triggered">> /\ Removed

\* A drop of exactly 15% observed after the quick-loss window.
C5_Witness ==
    /\ Evaluated /\ event.time_held > 60
    /\ event.position.entry_price = 100 /\ event.position.current_price = 85
    /\ event.reasons = <<"Stop Loss Triggered">> /\ Removed

C7_MaxHoldRemoves ==
    event.kind = "eval" /\ MaxHoldHolds(event) => Removed

C9_BuyIffAtOrBelowTarget ==
    event.kind = "poll"
    => (event.buy <=> (event.observed # None /\ event.observed <= event.target))

\* C9, amended: a poll executes the buy exactly when the observed price is
\* neither missing nor 0 and is at or below the target of the order, so the
\* first such poll fills the order and no poll before it does.
C9_BuyIffNonZeroAtOrBelowTarget ==
    event.kind = "poll"
    => (event.buy <=> (event.observed # None /\ event.observed # 0
                       /\ event.observed <= event.target))

\* Target 50: a poll that observes 50 executes the buy.
C9_Witness ==
    event.kind = "poll" /\ event.target = 50 /\ event.observed = 50 /\ event.buy

\* C10 as stated: the Position of a filled order has the observed price as entry_price.
C10_EntryIsObservedPrice ==
    event.kind = "fill" /\ event.success
    => /\ DictHas(active_positions, event.token)
       /\ PositionOf(event.token).entry_price = event.observed

\* C10, amended: the buy of a fill is executed at the target price of the order
\* and the Position of the filled order has that target price as entry_price.
C10_EntryIsTargetPrice ==
    /\ event.kind = "poll" /\ event.buy => event.exec_price = event.target
    /\ event.kind = "fill" /\ event.success
       => /\ DictHas(active_positions, event.token)
          /\ PositionOf(event.token).entry_price = event.order.price

\* Target 50, observed 49: the Position is entered at 50.
C10_Witness ==
    /\ event.kind = "fill" /\ event.success
    /\ event.observed = 49 /\ event.order.price = 50
    /\ PositionOf(event.token).entry_price = 50

\* C11: the step that completes a successful fill leaves the token with a
\* Position and without PendingOrder, also when the order was cancelled while
\* the buy was executing, and ends the task that filled: no state lies between
\* the creation of the Position and the removal of the order.
C11_FillIsAtomic ==
    [][event'.kind = "fill" /\ event'.success
       => /\ DictHas(active_positions', event'.token)
          /\ heap'[DictGet(active_positions', event'.token).position].order_type = "limit"
          /\ ~DictHas(pending_orders', event'.token)
          /\ BagCardinality(tasks') = BagCardinality(tasks) - 1
          /\ \A task \in BagToSet(tasks') :
                task.token = event'.token /\ task.pc = "buy"
                => CopiesIn(task, tasks') <= CopiesIn(task, tasks)]_vars

\* A fill of a token that had its order and no Position.
C11_Witness ==
    /\ event.kind = "fill" /\ event.success
    /\ event.had_order /\ ~event.had_position
    /\ DictHas(active_positions, event.token) /\ ~DictHas(pending_orders, event.token)
    /\ tasks = EmptyBag

\* C12: a successful market_sell(token, amount) submits amount, or the whole
\* remaining quantity when amount is unset; it removes the Position when amount
\* is unset or at least the remaining quantity and otherwise leaves it with the
\* quantity reduced by amount; no tracked Position has quantity 0.
C12_SellRemovesOrReduces ==
    [][event'.kind = "market_sell" /\ event'.result
       => LET t == event'.token
              amount == event'.amount
          IN  /\ DictHas(active_positions, t)
              /\ event'.sold = IF amount = None THEN PositionOf(t).amount ELSE amount
              /\ IF amount = None \/ amount >= PositionOf(t).amount
                 THEN ~DictHas(active_positions', t)
                 ELSE /\ DictHas(active_positions', t)
                      /\ heap'[DictGet(active_positions', t).position].amount
                            = PositionOf(t).amount - amount
              /\ \A i \in 1..Len(active_positions') :
                    heap'[active_positions'[i].position].amount > 0]_vars

\* C13: in every reachable state every tracked Position, of RiskManager and of
\* ManualTrader, has a quantity greater than 0.
C13_QuantityPositive ==
    /\ \A i \in 1..Len(positions) : positions[i].quantity > 0
    /\ \A i \in 1..Len(active_positions) : heap[active_positions[i].position].amount > 0

\* The Position objects that active_positions refers to are the same and have
\* the same fields in the next state.
SamePositions ==
    /\ active_positions' = active_positions
    /\ \A i \in 1..Len(active_positions) :
          heap'[active_positions[i].position] = heap[active_positions[i].position]

\* C14: a step of a market_sell call that does not complete it with success
\* (the call returns failure for want of a Position, of a price or of a
\* successful execution, or is suspended at an await) changes no Position and
\* no PendingOrder.
C14_FailedSellChangesNothing ==
    [][(sells' # sells \/ event'.kind = "market_sell")
       /\ ~(event'.kind = "market_sell" /\ event'.result)
       => SamePositions /\ pending_orders' = pending_orders]_vars

\* The execution of a sell of the whole position failed: the Position is tracked.
C14_Witness ==
    /\ event.kind = "market_sell" /\ ~event.result /\ event.how = "sell failed"
    /\ event.amount = None
    /\ DictHas(active_positions, event.token)

\* C15: cancel_limit_order returns failure exactly when the token has no
\* PendingOrder, and then changes no PendingOrder, no Position and no task.
C15_CancelAbsentChangesNothing ==
    [][event'.kind = "cancel_limit_order"
       => /\ event'.result <=> DictHas(pending_orders, event'.token)
          /\ ~event'.result
             => /\ pending_orders' = pending_orders
                /\ SamePositions
                /\ tasks' = tasks /\ sells' = sells]_vars

\* A cancel of a token without order failed while the other token has its
\* order and a task polls for it.
C15_Witness ==
    /\ event.kind = "cancel_limit_order" /\ ~event.result
    /\ Len(pending_orders) = 1 /\ ~DictHas(pending_orders, event.token)
    /\ \E task \in BagToSet(tasks) : task.token # event.token

\* C16: cancel_limit_order on a token with a PendingOrder removes the order and
\* returns success; a task that was polling when the order of its token was
\* cancelled ends at its next test or read of the order, without polling or
\* buying again; and a task ends without a fill only when the order is absent.
C16_CancelEndsLoop ==
    [][/\ event'.kind = "cancel_limit_order" /\ DictHas(pending_orders, event'.token)
          => event'.result /\ ~DictHas(pending_orders', event'.token)
       /\ \A task \in BagToSet(tasks) :
             /\ task.cancelled /\ task.pc \in {"ready", "price"}
             /\ CopiesIn(task, tasks') < CopiesIn(task, tasks)
             => BagCardinality(tasks') < BagCardinality(tasks)
       /\ event'.kind = "task_end" => ~DictHas(pending_orders, event'.token)]_vars

\* The entries of a dict that the step put there.
NewEntries(d1, d2) == {d2[i] : i \in 1..Len(d2)} \ {d1[i] : i \in 1..Len(d1)}

\* C17: a market_buy without price or with a failed execution, a fill attempt
\* whose buy failed and a new-token buy without signature leave every Position
\* and every PendingOrder as they were; a Position object enters
\* active_positions only in a market_buy or a fill whose execution succeeded,
\* and a token enters RiskManager.positions only with a signed buy.
C17_PositionOnlyBySuccessfulBuy ==
    [][/\ event'.kind = "market_buy" /\ (event'.price = None \/ ~event'.success)
          => ~event'.result /\ SamePositions /\ pending_orders' = pending_orders
       /\ event'.kind = "fill" /\ ~event'.success
          => SamePositions /\ pending_orders' = pending_orders
       /\ event'.kind = "new_token" /\ ~event'.added => positions' = positions
       /\ \A e \in NewEntries(active_positions, active_positions') :
             /\ event'.kind \in {"market_buy", "fill"}
             /\ event'.success /\ event'.token = e.token_address
       /\ DictKeys(positions') \ DictKeys(positions) # {}
          => event'.kind = "new_token" /\ event'.added]_vars

\* A market_buy whose execution failed, of a token that has a Position and an order.
C17_Witness ==
    /\ event.kind = "market_buy" /\ event.executed /\ ~event.success /\ ~event.result
    /\ DictHas(active_positions, event.token) /\ DictHas(pending_orders, event.token)

\* C18: the PendingOrder of a token appears or changes only in a limit_buy of
\* the token and then carries the requested amount, price, take_profit and
\* stop_loss; it disappears only in a successful cancel_limit_order of the token
\* or in the successful fill of that very order.  No other step, and no
\* passing of time, removes or alters it.
C18_OrderOnlyByLimitBuyFillCancel ==
    [][\A t \in env.tokens :
         /\ DictHas(pending_orders', t)
             /\ (~DictHas(pending_orders, t)
                 \/ DictGet(pending_orders', t) # DictGet(pending_orders, t))
            => /\ event'.kind = "limit_buy" /\ event'.token = t
               /\ DictGet(pending_orders', t)
                    = [token_address |-> t, amount |-> event'.amount,
                       price |-> event'.price, take_profit |-> event'.take_profit,
                       stop_loss |-> event'.stop_loss]
         /\ DictHas(pending_orders, t) /\ ~DictHas(pending_orders', t)
            => \/ event'.kind = "cancel_limit_order" /\ event'.token = t /\ event'.result
               \/ /\ event'.kind = "fill" /\ event'.token = t /\ event'.success
                  /\ event'.order = DictGet(pending_orders, t)]_vars

\* C19: update_tp_sl returns failure exactly when the token has no Position and
\* then changes nothing; otherwise the Position of the token keeps its identity,
\* entry_price, quantity and order_type, each exit level becomes the supplied
\* value or stays when none was supplied, and every other Position and every
\* PendingOrder stays as it was.
C19_UpdateChangesOnlySupplied ==
    [][event'.kind = "update_tp_sl"
       => LET t == event'.token
          IN  /\ event'.result <=> DictHas(active_positions, t)
              /\ active_positions' = active_positions
              /\ pending_orders' = pending_orders
              /\ \A i \in 1..Len(active_positions) :
                    LET old == heap[active_positions[i].position]
                        new == heap'[active_positions[i].position]
                    IN  IF active_positions[i].token_address # t THEN new = old
                        ELSE /\ new.token_address = old.token_address
                             /\ new.entry_price = old.entry_price
                             /\ new.amount = old.amount
                             /\ new.order_type = old.order_type
                             /\ new.take_profit = IF event'.take_profit = None
                                                  THEN old.take_profit
                                                  ELSE event'.take_profit
                             /\ new.stop_loss = IF event'.stop_loss = None
                                                THEN old.stop_loss
                                                ELSE event'.stop_loss]_vars

\* Only take_profit was supplied: it is 70 now and the stop_loss of 40 stayed.
C19_Witness ==
    /\ event.kind = "update_tp_sl" /\ event.result
    /\ event.take_profit = 70 /\ event.stop_loss = None
    /\ PositionOf(event.token).take_profit = 70
    /\ PositionOf(event.token).stop_loss = 40

\* C20: while a token has a Position, the Position object, its entry_price and
\* (in RiskManager) its entry_time stay the same and its quantity changes only
\* by the reduction of a partial market_sell; the Position of a token
\* disappears only in a successful market_sell of the whole or in an emergency
\* sell of the exit evaluation.
C20_OpenPositionNotReplaced ==
    [][\A t \in env.tokens :
         /\ DictHas(active_positions, t) /\ DictHas(active_positions', t)
            => /\ DictGet(active_positions', t) = DictGet(active_positions, t)
               /\ LET old == PositionOf(t)
                      new == heap'[DictGet(active_positions', t).position]
                  IN  /\ new.entry_price = old.entry_price
                      /\ new.amount # old.amount
                         => /\ event'.kind = "market_sell" /\ event'.result
                            /\ new.amount = old.amount - event'.amount
         /\ DictHas(active_positions, t) /\ ~DictHas(active_positions', t)
            => event'.kind = "market_sell" /\ event'.result /\ event'.token = t
         /\ DictHas(positions, t) /\ DictHas(positions', t)
            => /\ DictGet(positions', t).entry_price = DictGet(positions, t).entry_price
               /\ DictGet(positions', t).entry_time = DictGet(positions, t).entry_time
               /\ DictGet(positions', t).quantity = DictGet(positions, t).quantity
         /\ DictHas(positions, t) /\ ~DictHas(positions', t)
            => event'.kind = "eval" /\ event'.token = t /\ IsSell(event'.reasons)]_vars

\* C21: in no reachable state does a token have both a PendingOrder and an open
\* Position (the lifecycle states PENDING_LIMIT and OPEN exclude each other).
C21_OrderAndPositionExclusive ==
    \A t \in env.tokens : ~(DictHas(pending_orders, t) /\ DictHas(active_positions, t))

\* The number of tasks of token t that have submitted a buy to _execute_buy and
\* await its result.
BuysInFlight(t) ==
    LET buying == {task \in BagToSet(tasks) : task.token = t /\ task.pc = "buy"}
        Sum[S \in SUBSET buying] ==
            IF S = {} THEN 0
            ELSE LET x == CHOOSE y \in S : TRUE IN CopiesIn(x, tasks) + Sum[S \ {x}]
    IN  Sum[buying]

\* C22: for each token at most one buy is being executed at a time on behalf
\* of its PendingOrder, so that no order is bought twice, whatever the
\* interleaving of the tasks and also after a second limit_buy of the token.
C22_NoDuplicateFill ==
    \A t \in env.tokens : BuysInFlight(t) <= 1

\* C23: a task whose order was cancelled with success submits no buy and
\* creates no Position afterwards, also when the cancellation came during its
\* price fetch or its buy execution.
C23_NoFillAfterCancel ==
    [][\A task \in BagToSet(tasks) :
         /\ task.cancelled
         /\ CopiesIn(task, tasks') < CopiesIn(task, tasks)
         => /\ ~(event'.kind = "fill" /\ event'.success)
            /\ ~(event'.kind = "poll" /\ event'.buy)]_vars

\* C24: whatever happens to one token in an iteration of the exit evaluation
\* (no price, an error of the trigger evaluation, a sell), the iteration goes
\* on with the remaining positions of its list, and the loop never ends: it is
\* either visiting its list or asleep until its next iteration.
C24_ErrorsDoNotStopTheLoop ==
    /\ [](/\ rm_pc \in {"sleep", "fetch"}
          /\ rm_pc = "fetch" <=> rm_todo # <<>>)
    /\ [][event'.kind \in {"eval", "no_price"}
          => /\ Len(rm_todo') = Len(rm_todo) - 1
             /\ \A i \in 1..Len(rm_todo') :
                   rm_todo'[i].position.token_address = rm_todo[i + 1].position.token_address]_vars

\* The trigger evaluation of one token raised and another token is still to
\* be visited in the same iteration.
C24_Witness ==
    /\ event.kind = "eval" /\ event.reasons = <<"error">>
    /\ rm_pc = "fetch" /\ rm_todo # <<>>
    /\ rm_todo[1].position.token_address # event.token

\* C25: a task of _monitor_limit_order ends without a fill only when its
\* token has no PendingOrder, so in every reachable state every PendingOrder
\* has a task that polls for its token.
C25_EveryOrderHasATask ==
    /\ [](\A t \in env.tokens :
            DictHas(pending_orders, t) => \E task \in BagToSet(tasks) : task.token = t)
    /\ [][BagCardinality(tasks') < BagCardinality(tasks)
          => ~DictHas(pending_orders', event'.token)]_vars

\* A buy failed: the order is still pending and its task sleeps until the next poll.
C25_Witness ==
    /\ event.kind = "fill" /\ ~event.success
    /\ DictHas(pending_orders, event.token)
    /\ \E task \in BagToSet(tasks) : task.token = event.token /\ task.pc = "ready"

\* C26: an iteration that gets no price for a token leaves every Position as
\* it was and evaluates no trigger, and the next iteration visits every
\* tracked token again.
C26_NoPriceChangesNothing ==
    [][/\ event'.kind \in {"eval", "no_price"} /\ event'.price = None
          => event'.kind = "no_price" /\ positions' = positions
       /\ rm_pc = "sleep" /\ rm_pc' = "fetch"
          => /\ Len(rm_todo') = Len(positions)
             /\ \A i \in 1..Len(positions) : rm_todo'[i].position = positions[i]]_vars

\* No price for a token that is tracked with a price above its entry.
C26_Witness ==
    /\ event.kind = "no_price"
    /\ DictHas(positions, event.token)
    /\ DictGet(positions, event.token).highest_price = 130

(***************************************************************************)
(* The opportunity pipeline                                                *)
(***************************************************************************)
\* C27: for every observed transaction the Stealth Executor is invoked only
\* after the Analyzer returned an Opportunity, then the Strategy Scorer
\* selected a strategy, then the Risk Gate approved, in this order; if one of
\* the three stages answers none or denies, nothing is executed for that
\* observation.
C27_ExecutionOnlyAfterThreeStages ==
    /\ \A i \in 1..Len(stages) :
         stages[i].stage = "execute"
         => \E a \in 1..(i - 1), b \in 1..(i - 1), c \in 1..(i - 1) :
              /\ a < b /\ b < c
              /\ stages[a] = [stage |-> "analyze", passed |-> TRUE]
              /\ stages[b] = [stage |-> "select", passed |-> TRUE]
              /\ stages[c] = [stage |-> "gate", passed |-> TRUE]
    /\ (\E j \in 1..Len(stages) :
            stages[j].stage \in {"analyze", "select", "gate"} /\ ~stages[j].passed)
       => \A i \in 1..Len(stages) : stages[i].stage # "execute"

\* The executor has answered for an observation that passed the three stages.
C27_Witness ==
    /\ event.kind = "execute_stealth_transaction"
    /\ Len(stages) > 3
    /\ stages[Len(stages)].stage = "execute"

\* C28: every successful execution by the Stealth Executor in the pipeline is
\* followed by the registration of the resulting Position with the Lifecycle
\* Manager: when monitor_mempool is back at the stream after a successful
\* execution, RiskManager.positions tracks the tokens of the opportunity.
C28_ExecutedIsRegistered ==
    /\ mm_pc = "stream"
    /\ \E i \in 1..Len(stages) : stages[i] = [stage |-> "execute", passed |-> TRUE]
    => \A k \in 1..Len(analysis.tokens) : DictHas(positions, analysis.tokens[k])

\* C29: check_execution_safety approves if and only if each of the four
\* predicates returned True; a predicate that returns False or raises makes
\* the answer a denial, whatever the other predicates do.
C29_GateIsFailClosed ==
    event.kind = "check_execution_safety"
    => /\ event.result <=> /\ event.checks.price_impact = "True"
                           /\ event.checks.liquidity = "True"
                           /\ event.checks.competition = "True"
                           /\ event.checks.network = "True"
       /\ ~event.result => mm_pc # "build"

\* One predicate raised, the three others returned True, and the gate denied.
C29_Witness ==
    /\ event.kind = "check_execution_safety"
    /\ event.checks.competition = "raise"
    /\ event.checks.price_impact = "True"
    /\ event.checks.liquidity = "True"
    /\ event.checks.network = "True"
    /\ ~event.result

\* C30: select_best_strategy returns a registered strategy whose score is at
\* least the score of every registered strategy and above 0; it returns none
\* exactly when no strategy is registered or no score is above 0.
C30_BestStrategyOrNone ==
    event.kind = "select_best_strategy"
    => LET scores == event.scores
           registered == event.registered
       IN  /\ Len(scores) = Len(registered)
           /\ event.result # NoStrategy
              => \E i \in 1..Len(registered) :
                   /\ registered[i] = event.result
                   /\ scores[i].name = event.result
                   /\ scores[i].score > 0
                   /\ \A j \in 1..Len(scores) : scores[j].score <= scores[i].score
           /\ event.result = NoStrategy
              <=> \/ registered = <<>>
                  \/ \A j \in 1..Len(scores) : scores[j].score <= 0

\* The second of two registered strategies is returned: its score is above 0
\* and above the score of the first.
C30_Witness ==
    /\ event.kind = "select_best_strategy"
    /\ Len(event.scores) > 1
    /\ event.result = event.scores[Len(event.scores)].name
    /\ event.scores[1].score < event.scores[Len(event.scores)].score

(***************************************************************************)
(* Sells, the holding time and stale snapshots                             *)
(***************************************************************************)
\* C38: the amount that market_sell submits to the sell execution never exceeds
\* the quantity that the Position holds at that moment.
C38_SellWithinHolding ==
    event.kind = "sell_exec" => event.sell_amount <= event.held

\* C39: no Position is held for ever: an iteration of the exit-evaluation loop
\* that visits a token whose tracked Position has been held for
\* max_holding_time or longer removes it, whatever price is observed (no
\* price and the price 0 included).
C39_HeldTooLongIsRemoved ==
    [][/\ event'.kind \in {"eval", "no_price"}
       /\ DictHas(positions, event'.token)
       /\ rm_time - DictGet(positions, event'.token).entry_time >= max_holding_time
       => ~DictHas(positions', event'.token)]_vars

\* C40: the exit-evaluation loop removes a tracked Position only if that very
\* Position satisfied a trigger: an iteration that evaluates an object which
\* add_position has replaced during the price fetch leaves the tracked
\* Positions as they are.
C40_StaleSnapshotRemovesNothing ==
    [][event'.kind = "eval" /\ ~event'.live => positions' = positions]_vars

(***************************************************************************)
(* The analyzer                                                            *)
(***************************************************************************)
\* The observation of the step has an address that the whitelist does not hold.
Unlisted(info) ==
    /\ info # NoTokenInfo
    /\ \E i \in 1..Len(info.addresses) : ~IsTokenWhitelisted(info.addresses[i])

\* C33: an observation with a token that is not in the whitelist is rejected
\* before anything is changed: analyze_transaction_intent returns None, and the
\* volume history is after the step what it was before it, with no sample added.
C33_UnlistedLeavesHistory ==
    [][/\ event'.kind \in {"analyze_transaction_intent", "update_volume_history"}
       /\ Unlisted(event'.token_info)
       => /\ analysis' = NoOpportunity
          /\ mm_pc' = "stream"
          /\ volume_history' = volume_history]_vars

\* An observation of an unlisted token was rejected while the history held the
\* samples of an earlier observation, and the observation had an amount to add.
C33_Witness ==
    /\ event.kind = "analyze_transaction_intent"
    /\ event.rejected = "whitelist"
    /\ event.token_info.amounts # <<>>
    /\ Samples(volume_history) > 0
    /\ analysis = NoOpportunity

\* C34: analyze_transaction_intent returns an Opportunity only for an
\* observation of which every token is in the whitelist, the volume is at
\* least large_trade_threshold, the estimated profit is at least the minimum
\* profit and the market conditions were judged favorable; the observation for
\* which one of the four fails gets None.
C34_OpportunityPassedEveryTest ==
    analysis # NoOpportunity =>
        /\ \A i \in 1..Len(analysis.tokens) : IsTokenWhitelisted(analysis.tokens[i])
        /\ analysis.volume >= large_trade_threshold
        /\ analysis.estimated_profit >= MinProfitThreshold
        /\ analysis.market_conditions.favorable

\* An Opportunity was returned for an observation at the two thresholds.
C34_Witness ==
    /\ event.kind = "analyze_transaction_intent"
    /\ analysis # NoOpportunity
    /\ analysis.tokens # <<>>
    /\ analysis.volume = large_trade_threshold
    /\ analysis.estimated_profit = MinProfitThreshold

\* The volume of the samples of a token with a timestamp in (from, to].
VolumeBetween(h, t, from, to) ==
    SumVolumes(SelectSeq(SamplesOf(h, t), LAMBDA v : from < v.timestamp /\ v.timestamp <= to))

\* The judgement by the window: the volume of the window is above min_volume,
\* and the volume of its second half is above the volume of its first half.
WindowFavorable(h, t, at) ==
    LET half == at - (volume_window \div 2)
    IN  /\ VolumeBetween(h, t, at - volume_window, at) > min_volume
        /\ VolumeBetween(h, t, half, at) > VolumeBetween(h, t, at - volume_window, half)

\* C35: the market conditions are judged favorable exactly when the volume of
\* the token over the window is above min_volume and the volume of the second
\* half of the window is above the volume of the first half.
C35_FavorableIsByTheWindow ==
    /\ event.kind = "analyze_transaction_intent"
    /\ event.rejected \in {"no", "market"}
    /\ event.token_info.addresses # <<>>
    => (event.market_analysis.favorable
          <=> WindowFavorable(volume_history, Head(event.token_info.addresses), event.read_at))

\* C36: when the volume history is read for the judgement of the market, none
\* of its samples is older than the window at the time of the read.
C36_NoOldSampleAtRead ==
    /\ event.kind = "analyze_transaction_intent"
    /\ event.rejected \in {"no", "market"}
    => \A i \in 1..Len(volume_history) :
          \A j \in 1..Len(volume_history[i].samples) :
              volume_history[i].samples[j].timestamp >= event.read_at - volume_window

(***************************************************************************)
(* The Stealth Executor                                                    *)
(***************************************************************************)
\* C31: execute_stealth_transaction executes the parts one after the other in
\* their order, executes no part after the first part that fails, and returns
\* true if and only if every part was executed and succeeded; a partial abort
\* and a raised error return false.
C31_PartsInOrderUntilFailure ==
    /\ \A i \in 1..Len(parts_done) : i <= Len(tx_parts) /\ parts_done[i].part = tx_parts[i]
    /\ \A i \in 1..(Len(parts_done) - 1) : parts_done[i].ok
    /\ event.kind = "execute_stealth_transaction"
       => /\ event.success <=> /\ Len(parts_done) = Len(tx_parts)
                               /\ \A i \in 1..Len(parts_done) : parts_done[i].ok
          /\ event.raised => ~event.success

\* A partial abort: the second of three parts failed, the third was not
\* executed, and the call returned false.
C31_Witness ==
    /\ event.kind = "execute_stealth_transaction"
    /\ Len(tx_parts) > 2
    /\ Len(parts_done) = Len(tx_parts) - 1
    /\ parts_done[1].ok
    /\ ~parts_done[Len(parts_done)].ok
    /\ ~event.success

\* C32: the delay that the Stealth Executor sleeps before submission lies
\* within [min_delay, max_delay], for every strategy type.
C32_DelayWithinBounds ==
    event.kind = "stealth_delay" => min_delay <= event.delay /\ event.delay <= max_delay

====
